---- MODULE Spec2Model ----
(***************************************************************************)
(* Model of the LLM client of smart-resume-builder: the retry loop of      *)
(* OpenAIClient.chat / HuggingFaceClient.chat, the JSON contract enforcer  *)
(* chat_json with _safe_json_parse, and the callers run_pipeline and       *)
(* generate_tailored_resume.                                               *)
(*                                                                         *)
(* Texts are sequences of lexemes.  A response text uses the lexemes       *)
(*   "{" "}" "[" "]" ":"   the JSON structural characters                  *)
(*   "s"                   a complete JSON string literal                  *)
(*   "n"                   the JSON literal null                           *)
(*   " "                   JSON whitespace                                 *)
(*   "x"                   a word of prose (never part of JSON)            *)
(* An error message uses words and the separators " " and "_".             *)
(* time.sleep is observed through a clock that adds up the waits.          *)
(***************************************************************************)
EXTENDS Integers, Sequences, FiniteSets, TLC

\* ------------------------------------------------------------------ bounds
MaxRetries == 6
MaxTextLen == 4

\* ------------------------------------------------------- program constants
DefaultMaxRetries == 3
OpenAICooldown == 60
HFCooldown == 30
InitialDelay == 1
LowQualityPercent == 15
MinTextLen == 100
RateLimitStatus == 429
NoStatus == -1

\* ------------------------------------------------------------------ texts
Alphabet == {"{", "}", "[", "]", ":", "s", "n", " ", "x"}

Texts == UNION {[1..k -> Alphabet] : k \in 0..MaxTextLen}

\* The responses the scripted provider returns in the retry-centred
\* specification: one of each shape _safe_json_parse tells apart.
Responses ==
  { <<"{", "}">>,
    <<"{", "s", ":", "n", "}">>,
    <<"[", "s", "]">>,
    <<"s">>,
    <<"n">>,
    <<" ", "n">>,
    <<"x", "{", "}", "x">>,
    <<"x", "{", "n", "}">>,
    <<"x">>,
    <<>> }

\* message.content of an OpenAI response may be None.
NoneContent == <<"None">>

\* -------------------------------------------------------------- json.loads
PyNone == [tag |-> "None", repr |-> <<>>]
JSONDecodeError == [tag |-> "JSONDecodeError", repr |-> <<>>]

StripWs(text) == SelectSeq(text, LAMBDA c : c # " ")

\* Index just after the JSON value that starts at toks[i]; 0 when there is none.
RECURSIVE ValueEnd(_, _)
ValueEnd(toks, i) ==
  IF i > Len(toks) THEN 0
  ELSE IF toks[i] \in {"s", "n"} THEN i + 1
  ELSE IF toks[i] = "[" THEN
    IF i + 1 <= Len(toks) /\ toks[i + 1] = "]" THEN i + 2
    ELSE LET j == ValueEnd(toks, i + 1)
         IN IF j # 0 /\ j <= Len(toks) /\ toks[j] = "]" THEN j + 1 ELSE 0
  ELSE IF toks[i] = "{" THEN
    IF i + 1 <= Len(toks) /\ toks[i + 1] = "}" THEN i + 2
    ELSE IF i + 2 <= Len(toks) /\ toks[i + 1] = "s" /\ toks[i + 2] = ":" THEN
      LET j == ValueEnd(toks, i + 3)
      IN IF j # 0 /\ j <= Len(toks) /\ toks[j] = "}" THEN j + 1 ELSE 0
    ELSE 0
  ELSE 0

TagOf(tok) ==
  CASE tok = "{" -> "dict"
    [] tok = "[" -> "list"
    [] tok = "s" -> "str"
    [] OTHER -> "None"

\* json.loads: the Python value of the text, or JSONDecodeError.  The literal
\* null parses to Python's None.
json_loads(text) ==
  LET toks == StripWs(text)
  IN IF toks # <<>> /\ ValueEnd(toks, 1) = Len(toks) + 1
     THEN IF toks[1] = "n" THEN PyNone
          ELSE [tag |-> TagOf(toks[1]), repr |-> toks]
     ELSE JSONDecodeError

\* str.find / str.rfind, 1-based; 0 stands for Python's -1.
Find(text, c) ==
  IF \E i \in 1..Len(text) : text[i] = c
  THEN CHOOSE i \in 1..Len(text) :
         text[i] = c /\ \A j \in 1..(i - 1) : text[j] # c
  ELSE 0

RFind(text, c) ==
  IF \E i \in 1..Len(text) : text[i] = c
  THEN CHOOSE i \in 1..Len(text) :
         text[i] = c /\ \A j \in (i + 1)..Len(text) : text[j] # c
  ELSE 0

\* Mutant: the braces substring is tried before the direct parse.
safe_json_parse_SubstringFirst(text) ==
  LET direct == json_loads(text)
      start == Find(text, "{")
      end == RFind(text, "}")
      snippet == IF start # 0 /\ end # 0 /\ end > start
                 THEN json_loads(SubSeq(text, start, end))
                 ELSE JSONDecodeError
  IN IF snippet # JSONDecodeError THEN snippet
     ELSE IF direct # JSONDecodeError THEN direct
     ELSE PyNone

\* Mutant: the slice stops before the last brace (text[start:end]).
safe_json_parse_ShortSlice(text) ==
  LET direct == json_loads(text)
      start == Find(text, "{")
      end == RFind(text, "}")
  IN IF direct # JSONDecodeError THEN direct
     ELSE IF start # 0 /\ end # 0 /\ end > start
     THEN LET snippet == json_loads(SubSeq(text, start, end - 1))
          IN IF snippet # JSONDecodeError THEN snippet ELSE PyNone
     ELSE PyNone

\* _safe_json_parse: the direct parse, else the parse of text[start:end + 1].
safe_json_parse(text) ==
  LET direct == json_loads(text)
      start == Find(text, "{")
      end == RFind(text, "}")
  IN IF direct # JSONDecodeError THEN direct
     ELSE IF start # 0 /\ end # 0 /\ end > start
     THEN LET snippet == json_loads(SubSeq(text, start, end))
          IN IF snippet # JSONDecodeError THEN snippet ELSE PyNone
     ELSE PyNone

\* ------------------------------------------------------------------ errors
NoneError == [msg |-> <<"None">>, status |-> NoStatus, at |-> -1]

\* The exceptions the scripted provider raises (message words, status_code).
ProviderErrors ==
  { [msg |-> <<"Rate", " ", "limit", " ", "reached">>, status |-> NoStatus],
    [msg |-> <<"code", " ", "rate", "_", "limit">>, status |-> NoStatus],
    [msg |-> <<"too", " ", "many">>, status |-> RateLimitStatus],
    [msg |-> <<"rate", "limit">>, status |-> NoStatus],
    [msg |-> <<"timeout">>, status |-> 500] }

LowerWord(w) ==
  CASE w = "Rate" -> "rate"
    [] w = "RATE" -> "rate"
    [] w = "Limit" -> "limit"
    [] w = "Open" -> "open"
    [] w = "Face" -> "face"
    [] OTHER -> w

Lower(msg) == [i \in 1..Len(msg) |-> LowerWord(msg[i])]

Contains(text, sub) ==
  \E i \in 1..(Len(text) - Len(sub) + 1) : SubSeq(text, i, i + Len(sub) - 1) = sub

is_rate_limit_error(exc) ==
  LET msg == Lower(exc.msg)
  IN IF Contains(msg, <<"rate", " ", "limit">>) \/ Contains(msg, <<"rate", "_", "limit">>)
     THEN TRUE
     ELSE IF exc.status # NoStatus /\ exc.status = RateLimitStatus THEN TRUE
     ELSE FALSE


\* ------------------------------------------------------------------ prompts
UserPrompt == <<"PROMPT">>
ExtractionPrompt == <<"EXTRACTION_PROMPT">>
TailoringPrompt == <<"TAILORING_PROMPT">>

\* Mutant: the repair prompt leaves the original response out.
RepairPrompt_NoOriginal(raw_) ==
  <<"The previous response was invalid JSON.", "Original response:">>

\* repair_prompt of chat_json
RepairPrompt(raw_) ==
  <<"The previous response was invalid JSON.", "Original response:">> \o raw_

\* ------------------------------------------------------------------- state
VARIABLES
  api,          \* entry point in progress: chat, chat_json, pipeline, app
  arg,          \* max_retries as passed by the caller (NotGiven: omitted)
  backend,      \* class of the client in use
  provider,     \* provider identifier chosen by the caller of the app
  stage,        \* run_pipeline: extract or tailor
  pc,           \* idle, request (chat about to iterate), ret, done
  phase,        \* chat_json: first chat or repair chat
  prompt,       \* chat: the prompt argument
  max_retries,  \* chat: the max_retries parameter
  attempt,      \* chat: loop index
  delay,        \* chat: local delay
  last_error,   \* chat: local last_error
  raw,          \* chat_json: local raw
  requests,     \* provider requests issued by the current chat call
  sleeps,       \* time.sleep calls of the current chat call
  waited,       \* seconds slept in the current chat call
  rlFails,      \* rate-limit failures scripted in the current chat call
  chatCalls,    \* chat calls made by the current chat_json call
  lastContent,  \* content of the last successful provider response
  result,       \* value returned to the caller
  outcome,      \* none, ok, or the class of the exception that came out
  errCarried,   \* error quoted by the RuntimeError of chat
  appIn,        \* generate_tailored_resume: its inputs
  pipe,         \* run_pipeline: chat_json calls per stage, Resume validated
  ident,        \* build_client: the provider argument
  client,       \* build_client: class of the client constructed
  data,         \* parse_obj: the mapping validated
  raw_text,     \* extract_resume_json: the raw_text argument
  resume,       \* Resume built by extract_resume_json
  reparsed,     \* Resume parsed back from resume.json()
  tailored,     \* TailoredResume built by TailoredResume.parse_obj
  pydantic,     \* major version of the pydantic package installed
  jsonRequests, \* provider requests issued by the current chat_json call
  sdk,          \* the imported openai module: SDK generation and openai.api_key
  inv,          \* the pipeline invocations in progress, one record each
  pdf           \* parse_resume_pdf: extractor outputs and the result

vars == <<api, arg, backend, provider, stage, pc, phase, prompt, max_retries,
          attempt, delay, last_error, raw, requests, sleeps, waited, rlFails,
          chatCalls, lastContent, result, outcome, errCarried,
          appIn, pipe, ident, client, data, raw_text, resume, reparsed,
          tailored, pydantic, jsonRequests, sdk, inv, pdf>>

\* The state of the schema layer and of build_client.
dataVars ==
  <<ident, client, data, raw_text, resume, reparsed, tailored, pydantic>>

\* The state of a chat or chat_json call.
chatVars ==
  <<arg, backend, provider, stage, phase, prompt, max_retries, attempt, delay,
    last_error, raw, requests, sleeps, waited, rlFails, chatCalls, lastContent,
    result, errCarried, jsonRequests>>

\* The state of the OpenAI SDK module, of the concurrent invocations and of
\* the PDF parser.
envVars == <<sdk, inv, pdf>>

NotGiven == -1
Backends == {"openai", "huggingface"}
NoResult == [tag |-> "none", repr |-> <<>>]
NoContent == <<"none">>

\* No object of the schema layer (None, or not built yet).
NoObject == [k |-> "none", v |-> 0]

\* The openai module before any client is constructed.
NoSdk == [mode |-> "unknown", api_key |-> "none"]

\* The pipeline invocations that may run at once.
Invocations == {1, 2}

\* An invocation that has not started: no credential, no client, no request.
NoInvocation ==
  [pc |-> "idle", api_key |-> "none", client_key |-> "none", sent |-> {}]

\* An extractor returned None: text or None is None for the empty text. A
\* text is its number of purely alphabetic words, the number of distinct ones
\* among them, and its number of characters.
NoText == [words |-> 0, unique |-> 0, len |-> 0]

\* No ResumeParseResult: parse_resume_pdf was not called, or it raised.
NoParse ==
  [ok |-> FALSE, raw_text |-> NoText, method |-> "none", fallback |-> FALSE]

\* parse_resume_pdf not called yet.
NoPdf == [plumber |-> NoText, pymupdf |-> NoText, result |-> NoParse]

NoAppIn ==
  [api_key |-> "", pdf_file |-> "none", job_description |-> <<>>,
   plumber |-> "None", pymupdf |-> "None", template_choice |-> "none"]

NoPipe == [extract |-> 0, tailor |-> 0, resume |-> FALSE]

Init ==
  /\ api = "none" /\ arg = NotGiven /\ backend = "none" /\ provider = "none"
  /\ stage = "none" /\ pc = "idle" /\ phase = "none" /\ prompt = <<>>
  /\ max_retries = 0 /\ attempt = 0 /\ delay = 0 /\ last_error = NoneError
  /\ raw = <<>> /\ requests = 0 /\ sleeps = 0 /\ waited = 0 /\ rlFails = 0
  /\ chatCalls = 0 /\ lastContent = NoContent /\ result = NoResult
  /\ outcome = "none" /\ errCarried = NoneError
  /\ appIn = NoAppIn /\ pipe = NoPipe
  /\ ident = <<>> /\ client = "none" /\ data = NoObject /\ raw_text = <<>>
  /\ resume = NoObject /\ reparsed = NoObject /\ tailored = NoObject
  /\ pydantic = "none"
  /\ jsonRequests = 0
  /\ sdk = NoSdk /\ inv = [i \in Invocations |-> NoInvocation] /\ pdf = NoPdf

\* --------------------------------------------------------------------- chat
\* def chat(self, prompt, *, max_retries=3): the value of the parameter.
MaxRetriesParam(a) == IF a = NotGiven THEN DefaultMaxRetries ELSE a

\* Mutant: the loop runs once more than max_retries.
ChatRange_OneMore(mr) == 0..mr

\* for attempt in range(max_retries)
ChatRange(mr) == 0..(mr - 1)

\* wait_time of the rate-limit branch
Cooldown(b) == IF b = "openai" THEN OpenAICooldown ELSE HFCooldown

\* Mutant: the backoff delay is slept on top of the cooldown.
WaitTime_AddsBackoff(b, exc, d) ==
  IF is_rate_limit_error(exc) THEN Cooldown(b) + d ELSE d

\* the argument of time.sleep in the except branch
WaitTime(b, exc, d) == IF is_rate_limit_error(exc) THEN Cooldown(b) ELSE d

\* Mutant: the delay is doubled only after a wait that used it.
NextDelay_OnlyAfterBackoff(d, exc) ==
  IF is_rate_limit_error(exc) THEN d ELSE d * 2

\* delay *= 2, the last statement of the except branch
NextDelay(d, exc) == d * 2

\* Mutant: only the first error is remembered.
NextLastError_KeepsFirst(prev, exc) == IF prev = NoneError THEN exc ELSE prev

\* last_error = exc
NextLastError(prev, exc) == exc

\* return resp.choices[0].message.content or "" / return text_generation(...)
ChatText(b, content) ==
  IF b = "openai" /\ content = NoneContent THEN <<>> ELSE content

\* Entry of chat: the locals before the loop.
EnterChat(p, a) ==
  /\ prompt' = p
  /\ max_retries' = MaxRetriesParam(a)
  /\ attempt' = 0
  /\ delay' = InitialDelay
  /\ last_error' = NoneError
  /\ requests' = 0 /\ sleeps' = 0 /\ waited' = 0 /\ rlFails' = 0
  /\ chatCalls' = chatCalls + 1
  /\ pc' = "request"

\* Mutant: an exception inside run_pipeline is turned into an empty result.
Raise_DefaultInPipeline(cls, carried) ==
  /\ outcome' = IF api = "pipeline" THEN "ok" ELSE cls
  /\ errCarried' = carried
  /\ result' = IF api = "pipeline" THEN [tag |-> "dict", repr |-> <<"{", "}">>]
                ELSE NoResult
  /\ raw' = <<>> /\ prompt' = <<>>
  /\ pc' = "done"

\* An exception leaves the entry point.
Raise(cls, carried) ==
  /\ outcome' = cls
  /\ errCarried' = carried
  /\ result' = NoResult
  /\ raw' = <<>> /\ prompt' = <<>>
  /\ pc' = "done"

\* A value is returned by chat or chat_json: to the caller of the client, or
\* to the pipeline stage that called chat_json.
Return(v) ==
  /\ outcome' = "ok"
  /\ result' = v
  /\ raw' = <<>> /\ prompt' = <<>>
  /\ errCarried' = errCarried
  /\ pc' = IF api = "pipeline" THEN "ret" ELSE "done"

\* client.chat(prompt, max_retries=...) called directly.
CallChat(args) ==
  /\ pc = "idle"
  /\ \E b \in Backends, a \in args :
     /\ api' = "chat" /\ arg' = a /\ backend' = b /\ phase' = "none"
     /\ EnterChat(UserPrompt, a)
  /\ jsonRequests' = 0
  /\ UNCHANGED <<provider, stage, raw, lastContent, result, outcome, errCarried>>
  /\ UNCHANGED <<appIn, pipe, dataVars, envVars>>

\* client.chat_json(prompt, max_retries=...) called directly: raw = self.chat(...)
CallChatJson(args) ==
  /\ pc = "idle"
  /\ \E b \in Backends, a \in args :
     /\ api' = "chat_json" /\ arg' = a /\ backend' = b /\ phase' = "first"
     /\ EnterChat(UserPrompt, a)
  /\ jsonRequests' = 0
  /\ UNCHANGED <<provider, stage, raw, lastContent, result, outcome, errCarried>>
  /\ UNCHANGED <<appIn, pipe, dataVars, envVars>>

\* One iteration of the loop whose provider request raises: the except branch.
RequestFails ==
  /\ pc = "request"
  /\ attempt \in ChatRange(max_retries)
  /\ \E e \in ProviderErrors :
       LET exc == [msg |-> e.msg, status |-> e.status, at |-> attempt]
       IN /\ requests' = requests + 1
          /\ jsonRequests' = jsonRequests + 1
          /\ last_error' = NextLastError(last_error, exc)
          /\ waited' = waited + WaitTime(backend, exc, delay)
          /\ sleeps' = sleeps + 1
          /\ rlFails' = rlFails + (IF is_rate_limit_error(exc) THEN 1 ELSE 0)
          /\ delay' = NextDelay(delay, exc)
          /\ attempt' = attempt + 1
  /\ UNCHANGED <<api, arg, backend, provider, stage, pc, phase, prompt,
                 max_retries, raw, chatCalls, lastContent, result, outcome,
                 errCarried>>
  /\ UNCHANGED <<appIn, pipe, dataVars, envVars>>

\* The loop ends without a return: raise RuntimeError(... {last_error}).
ChatExhausted ==
  /\ pc = "request"
  /\ attempt \notin ChatRange(max_retries)
  /\ Raise("RuntimeError", last_error)
  /\ UNCHANGED <<api, arg, backend, provider, stage, phase, max_retries,
                 attempt, delay, last_error, requests, sleeps, waited,
                 rlFails, chatCalls, lastContent, jsonRequests>>
  /\ UNCHANGED <<appIn, pipe, dataVars, envVars>>

\* ---------------------------------------------------------------- chat_json
\* Mutant: whatever the repair parse gave is returned.
RepairOutcome_NeverRaises(repaired) == "ok"

\* if repaired is None: raise ValueError(...) else return repaired
RepairOutcome(repaired) == IF repaired = PyNone THEN "ValueError" ELSE "ok"

\* if parsed is not None: return parsed
FirstParseReturns(parsed) == parsed # PyNone

\* Mutant: the repair call is made without max_retries and gets the default.
RepairRetries_Default(a) == NotGiven

\* repaired_raw = self.chat(repair_prompt, max_retries=max_retries)
RepairRetries(a) == a

\* chat_json after its current chat call returned text.
ChatJsonContinue(text) ==
  IF phase = "first"
  THEN LET parsed == safe_json_parse(text)
       IN IF FirstParseReturns(parsed)
          THEN /\ Return(parsed)
               /\ requests' = requests + 1
               /\ UNCHANGED <<phase, max_retries, attempt, delay,
                              last_error, sleeps, waited, rlFails, chatCalls>>
          ELSE /\ raw' = text
               /\ phase' = "repair"
               /\ EnterChat(RepairPrompt(text), RepairRetries(arg))
               /\ UNCHANGED <<result, outcome, errCarried>>
  ELSE LET repaired == safe_json_parse(text)
       IN /\ IF RepairOutcome(repaired) = "ok"
             THEN Return(repaired)
             ELSE Raise("ValueError", errCarried)
          /\ requests' = requests + 1
          /\ UNCHANGED <<phase, max_retries, attempt, delay,
                         last_error, sleeps, waited, rlFails, chatCalls>>

\* The contents the scripted provider may answer with: any text of texts, but
\* after a first response outside the set small, a text of small (the pair of
\* responses of one chat_json call has at least one member in small).
Contents(texts, small) ==
  (IF phase = "repair" /\ raw \notin small THEN small ELSE texts)
    \cup (IF backend = "openai" THEN {NoneContent} ELSE {})

\* One iteration of the loop whose provider request succeeds: chat returns the
\* text, and chat_json (when it is the caller) goes on with it.
RequestSucceeds(texts, small) ==
  /\ pc = "request"
  /\ attempt \in ChatRange(max_retries)
  /\ \E content \in Contents(texts, small) :
       LET text == ChatText(backend, content)
       IN /\ lastContent' = content
          /\ jsonRequests' = jsonRequests + 1
          /\ IF api = "chat"
             THEN /\ Return([tag |-> "str", repr |-> text])
                  /\ requests' = requests + 1
                  /\ UNCHANGED <<phase, max_retries, attempt, delay,
                                 last_error, sleeps, waited, rlFails, chatCalls>>
             ELSE ChatJsonContinue(text)
  /\ UNCHANGED <<api, arg, backend, provider, stage>>
  /\ UNCHANGED <<appIn, pipe, dataVars, envVars>>

\* ----------------------------------------------------------------- pipeline
\* The provider choices of the app's dropdown.
ProviderChoices == {"OpenAI", "Hugging Face (Inference API)"}

\* The inputs of generate_tailored_resume: the form fields, and what the two
\* PDF text extractors return for the uploaded file (None, low-quality text,
\* good text).
ExtractorResults == {"None", "low", "good"}

AppInputs ==
  [api_key : {"", "sk"},
   pdf_file : {"none", "file"},
   job_description : {<<>>, <<" ">>, <<"j">>},
   plumber : ExtractorResults,
   pymupdf : ExtractorResults,
   template_choice : {"classic", "missing"}]

\* list_templates(): the stems of the *.tex files.
TemplateMap == {"classic"}

\* str.strip on a sequence of characters.
RECURSIVE LStrip(_)
LStrip(str) ==
  IF str # <<>> /\ Head(str) \in {" ", "\n"} THEN LStrip(Tail(str)) ELSE str

RECURSIVE RStrip(_)
RStrip(str) ==
  IF str # <<>> /\ str[Len(str)] \in {" ", "\n"}
  THEN RStrip(SubSeq(str, 1, Len(str) - 1))
  ELSE str

Strip(str) == RStrip(LStrip(str))

\* parse_resume_pdf: pdfplumber first, pymupdf when that gave nothing or
\* low-quality text; ValueError when there is no text at all.
ParseResumePdf(plumber, pymupdf) ==
  LET useFallback == (plumber = "None" \/ plumber = "low") /\ pymupdf # "None"
      text == IF useFallback THEN pymupdf ELSE plumber
      method_used == IF useFallback THEN "pymupdf" ELSE "pdfplumber"
  IN IF text = "None"
     THEN [ok |-> FALSE, raw_text |-> "None", method |-> "none"]
     ELSE [ok |-> TRUE, raw_text |-> text, method |-> method_used]

\* Mutant: the template source is not looked up before run_pipeline is called.
AppOutcome_NoTemplateLookup(in) ==
  IF in.api_key = "" THEN "API key/token required."
  ELSE IF in.pdf_file = "none" THEN "Please upload a resume PDF."
  ELSE IF Strip(in.job_description) = <<>> THEN "Job description required."
  ELSE IF ~ParseResumePdf(in.plumber, in.pymupdf).ok THEN "ValueError"
  ELSE "TypeError"

\* generate_tailored_resume up to its call of run_pipeline: the message of the
\* early return, or the class of the exception its except branch reports.
\* run_pipeline(api_key=, model=, provider=, ...) raises TypeError: run_pipeline
\* has no provider parameter.
AppOutcome(in) ==
  IF in.api_key = "" THEN "API key/token required."
  ELSE IF in.pdf_file = "none" THEN "Please upload a resume PDF."
  ELSE IF Strip(in.job_description) = <<>> THEN "Job description required."
  ELSE IF ~ParseResumePdf(in.plumber, in.pymupdf).ok THEN "ValueError"
  ELSE IF in.template_choice \notin TemplateMap THEN "KeyError"
  ELSE "TypeError"

\* generate_tailored_resume: every path ends in an error result.
GenerateTailoredResume ==
  /\ pc = "idle"
  /\ \E p \in ProviderChoices, in \in AppInputs :
       /\ api' = "app" /\ provider' = p /\ appIn' = in
       /\ Raise(AppOutcome(in), errCarried)
  /\ UNCHANGED <<arg, backend, stage, phase, max_retries, attempt,
                 delay, last_error, requests, sleeps, waited, rlFails,
                 chatCalls, lastContent, pipe, dataVars, jsonRequests,
                 envVars>>

\* run_pipeline(api_key, model, raw_text, ...) -> extract_resume_json:
\* client = OpenAIClient(...); data = client.chat_json(prompt)
RunPipeline ==
  /\ pc = "idle"
  /\ api' = "pipeline" /\ stage' = "extract"
  /\ backend' = "openai" /\ arg' = NotGiven /\ phase' = "first"
  /\ EnterChat(ExtractionPrompt, NotGiven)
  /\ pipe' = [extract |-> 1, tailor |-> 0, resume |-> FALSE]
  /\ jsonRequests' = 0
  /\ UNCHANGED <<provider, raw, lastContent, result, outcome, errCarried,
                 appIn, dataVars, envVars>>

\* Resume.parse_obj(data) / TailoredResume.parse_obj(data): a value that is not
\* a dict is rejected; the lexeme "s" hides the keys and the field values of a
\* dict, so a dict is either accepted or rejected.
ParseObjOutcomes(data_) ==
  IF data_.tag = "dict" THEN {"ok", "ValidationError"} ELSE {"ValidationError"}

\* Mutant: tailoring goes on after a failed validation of the extraction.
ExtractProceeds_Always(v) == TRUE

\* resume = Resume.parse_obj(data): an exception ends run_pipeline.
ExtractProceeds(v) == v = "ok"

\* extract_resume_json after chat_json returned, then tailor_resume:
\* client = OpenAIClient(...); data = client.chat_json(prompt)
ExtractReturns ==
  /\ pc = "ret" /\ stage = "extract"
  /\ \E v \in ParseObjOutcomes(result) :
       IF ExtractProceeds(v)
       THEN /\ stage' = "tailor" /\ backend' = "openai" /\ phase' = "first"
            /\ chatCalls' = 1
            /\ prompt' = TailoringPrompt
            /\ max_retries' = MaxRetriesParam(NotGiven)
            /\ attempt' = 0 /\ delay' = InitialDelay /\ last_error' = NoneError
            /\ requests' = 0 /\ sleeps' = 0 /\ waited' = 0 /\ rlFails' = 0
            /\ jsonRequests' = 0
            /\ pc' = "request"
            /\ result' = NoResult /\ outcome' = "none"
            /\ pipe' = [pipe EXCEPT !.tailor = @ + 1, !.resume = (v = "ok")]
            /\ UNCHANGED <<raw, errCarried>>
       ELSE /\ Raise("ValidationError", errCarried)
            /\ UNCHANGED <<stage, backend, phase, chatCalls,
                           max_retries, attempt, delay, last_error, requests,
                           sleeps, waited, rlFails, pipe, jsonRequests>>
  /\ UNCHANGED <<api, arg, provider, lastContent, appIn, dataVars, envVars>>

\* tailor_resume after chat_json returned; run_pipeline returns the pair.
TailorReturns ==
  /\ pc = "ret" /\ stage = "tailor"
  /\ \E v \in ParseObjOutcomes(result) :
       IF v = "ok"
       THEN /\ pc' = "done"
            /\ UNCHANGED <<result, outcome, raw, prompt, errCarried>>
       ELSE Raise("ValidationError", errCarried)
  /\ UNCHANGED <<api, arg, backend, provider, stage, phase, max_retries,
                 attempt, delay, last_error, requests, sleeps, waited,
                 rlFails, chatCalls, lastContent, appIn, pipe, dataVars,
                 jsonRequests, envVars>>

\* ------------------------------------------------------------- build_client
\* Provider identifiers are sequences of these pieces: "Open" "ai" spells
\* "Openai", "hugging" " " "Face" spells "hugging Face".
MaxIdLen == 5

IdPieces == {"Open", "ai", "hugging", "Face", "(inference api)", " "}

Identifiers == UNION {[1..n -> IdPieces] : n \in 0..MaxIdLen}

\* str.strip() of an identifier: leading and trailing spaces go, inner ones stay.
RECURSIVE StripSpaces(_)
StripSpaces(w) ==
  IF w = <<>> THEN w
  ELSE IF Head(w) = " " THEN StripSpaces(Tail(w))
  ELSE IF w[Len(w)] = " " THEN StripSpaces(SubSeq(w, 1, Len(w) - 1))
  ELSE w

OpenAINames == {<<"open", "ai">>, <<"open", " ", "ai">>}

HuggingFaceNames ==
  { <<"hugging", "face">>, <<"hugging", " ", "face">>,
    <<"hugging", " ", "face", " ", "(inference api)">> }

\* build_client(provider, api_key, model): the class it constructs and how the
\* call ends.
build_client(id, api_key) ==
  LET normalized == Lower(StripSpaces(id))
  IN IF normalized \in OpenAINames
     THEN [client |-> "OpenAIClient", outcome |-> "ok"]
     ELSE IF normalized \in HuggingFaceNames
     THEN IF api_key = ""
          THEN [client |-> "none", outcome |-> "Hugging Face token required."]
          ELSE [client |-> "HuggingFaceClient", outcome |-> "ok"]
     ELSE [client |-> "none", outcome |-> "Unknown provider"]

BuildClient ==
  /\ pc = "idle"
  /\ \E id \in Identifiers, key \in {"", "sk"} :
       LET built == build_client(id, key)
       IN /\ api' = "build_client"
          /\ ident' = id
          /\ client' = built.client
          /\ appIn' = [NoAppIn EXCEPT !.api_key = key]
          /\ outcome' = built.outcome
          /\ pc' = "done"
  /\ UNCHANGED <<arg, backend, provider, stage, phase, prompt, max_retries,
                 attempt, delay, last_error, raw, requests, sleeps, waited,
                 rlFails, chatCalls, lastContent, result, errCarried, pipe,
                 data, raw_text, resume, reparsed, tailored, pydantic,
                 jsonRequests, envVars>>

\* ------------------------------------------------------------- schema layer
\* Python values as the schema layer sees them: k is the type (None, str, int,
\* list, dict, or the name of a model class), v the content. A str holds its
\* characters, an int the characters of str() of it, a list its items, a dict
\* and a model object their fields; a key a dict does not have reads as
\* Missing.
MaxStrLen == 3
MaxListLen == 2

Chars == {"a", " ", "\n"}

Strs == UNION {[1..n -> Chars] : n \in 0..MaxStrLen}

\* The lists of at most MaxListLen items of short, and the one-item lists of
\* items of long.
ListsOf(short, long) ==
  UNION {[1..n -> short] : n \in 0..MaxListLen} \cup {<<x>> : x \in long}

Missing == [k |-> "missing", v |-> <<>>]
NoneValue == [k |-> "None", v |-> <<>>]
Int5 == [k |-> "int", v |-> <<"5">>]
Str(s) == [k |-> "str", v |-> s]
List(items) == [k |-> "list", v |-> items]
Dict(fields) == [k |-> "dict", v |-> fields]
Obj(cls, fields) == [k |-> cls, v |-> fields]
ValidationError == [k |-> "ValidationError", v |-> <<>>]

PydanticVersions == {"v1", "v2"}

\* str(value) as _coerce_bullets uses it on a value that is not a str.
PyStr(value) ==
  CASE value.k \in {"str", "int"} -> value.v
    [] value.k = "None" -> <<"None">>
    [] value.k = "list" -> <<"[..]">>
    [] OTHER -> <<"{..}">>

\* str.splitlines()
RECURSIVE SplitLines(_)
SplitLines(str) ==
  IF str = <<>> THEN <<>>
  ELSE IF \E i \in 1..Len(str) : str[i] = "\n"
  THEN LET i == CHOOSE j \in 1..Len(str) :
                  str[j] = "\n" /\ \A h \in 1..(j - 1) : str[h] # "\n"
       IN <<SubSeq(str, 1, i - 1)>> \o SplitLines(SubSeq(str, i + 1, Len(str)))
  ELSE <<str>>

\* Mutant: a str is wrapped whole, as _coerce_bullets does.
coerce_list_NoSplit(value) ==
  CASE value.k = "None" -> List(<<>>)
    [] value.k = "list" -> value
    [] value.k = "str" -> List(<<value>>)
    [] OTHER -> List(<<value>>)

\* _coerce_list(value)
coerce_list(value) ==
  CASE value.k = "None" -> List(<<>>)
    [] value.k = "list" -> value
    [] value.k = "str" ->
         LET stripped == Strip(value.v)
             lines == SelectSeq(SplitLines(stripped), LAMBDA line : Strip(line) # <<>>)
         IN IF stripped = <<>> THEN List(<<>>)
            ELSE List([i \in 1..Len(lines) |-> Str(Strip(lines[i]))])
    [] OTHER -> List(<<value>>)

\* {"text": text}
BulletDict(text) == Dict([text |-> Str(text), evidence |-> Missing])

\* Mutant: dict items are not kept but go through str() like other items.
RECURSIVE CoerceItems_NoDictBranch(_)
CoerceItems_NoDictBranch(items) ==
  IF items = <<>> THEN <<>>
  ELSE LET item == Head(items)
           rest == CoerceItems_NoDictBranch(Tail(items))
       IN IF item.k = "str"
          THEN IF Strip(item.v) # <<>>
               THEN <<BulletDict(Strip(item.v))>> \o rest
               ELSE rest
          ELSE <<BulletDict(PyStr(item))>> \o rest

\* The loop of _coerce_bullets over the items of a list.
RECURSIVE CoerceItems(_)
CoerceItems(items) ==
  IF items = <<>> THEN <<>>
  ELSE LET item == Head(items)
           rest == CoerceItems(Tail(items))
       IN IF item.k = "str"
          THEN IF Strip(item.v) # <<>>
               THEN <<BulletDict(Strip(item.v))>> \o rest
               ELSE rest
          ELSE IF item.k = "dict" THEN <<item>> \o rest
          ELSE <<BulletDict(PyStr(item))>> \o rest

\* _coerce_bullets(value)
coerce_bullets(value) ==
  CASE value.k = "None" -> List(<<>>)
    [] value.k = "list" -> List(CoerceItems(value.v))
    [] value.k = "str" ->
         IF Strip(value.v) = <<>> THEN List(<<>>)
         ELSE List(<<BulletDict(Strip(value.v))>>)
    [] OTHER -> List(<<BulletDict(PyStr(value))>>)

\* pydantic's validation of an Optional[str] field: pydantic 1 turns an int
\* into its str, pydantic 2 rejects it.
OptionalStr(value, ver) ==
  CASE value.k \in {"missing", "None"} -> NoneValue
    [] value.k = "str" -> value
    [] value.k = "int" -> IF ver = "v1" THEN Str(value.v) ELSE ValidationError
    [] OTHER -> ValidationError

\* pydantic's validation of a str, as the item of a List[str].
RequiredStr(value, ver) ==
  IF value.k \in {"missing", "None"} THEN ValidationError
  ELSE OptionalStr(value, ver)

\* pydantic's validation of a List[...] field with default_factory=list: the
\* default when the key is missing, an error for None and for anything that
\* is not a list, otherwise the items validated one by one.
\* validated holds the items of value after their own validation.
ListOf(value, validated) ==
  IF value.k = "missing" THEN List(<<>>)
  ELSE IF value.k # "list" THEN ValidationError
  ELSE IF \E i \in 1..Len(validated) : validated[i] = ValidationError
  THEN ValidationError
  ELSE List(validated)

\* The items of a list; none for a value that is not a list.
Items(value) == IF value.k = "list" THEN value.v ELSE <<>>

\* A model object, unless one of its fields failed to validate.
Model(cls, fields) ==
  IF \E f \in DOMAIN fields : fields[f] = ValidationError
  THEN ValidationError
  ELSE Obj(cls, fields)

\* evidence: Optional[EvidenceItem]
OptionalEvidence(value, ver) ==
  IF value.k \in {"missing", "None"} THEN NoneValue
  ELSE IF value.k # "dict" THEN ValidationError
  ELSE Model("EvidenceItem", [text |-> OptionalStr(value.v.text, ver)])

BulletPoint(value, ver) ==
  IF value.k # "dict" THEN ValidationError
  ELSE Model("BulletPoint",
             [text |-> OptionalStr(value.v.text, ver),
              evidence |-> OptionalEvidence(value.v.evidence, ver)])

\* A List[BulletPoint] field with its pre-validator (bullets, details): the
\* validator runs on every supplied value, None included, not on the default.
Bullets(value, ver) ==
  IF value.k = "missing" THEN List(<<>>)
  ELSE LET coerced == coerce_bullets(value)
       IN ListOf(coerced, [i \in 1..Len(coerced.v) |-> BulletPoint(coerced.v[i], ver)])

\* The entry classes, each with one of its Optional[str] fields.
ExperienceEntry(value, ver) ==
  IF value.k # "dict" THEN ValidationError
  ELSE Model("ExperienceEntry",
             [company |-> OptionalStr(value.v.company, ver),
              bullets |-> Bullets(value.v.bullets, ver)])

EducationEntry(value, ver) ==
  IF value.k # "dict" THEN ValidationError
  ELSE Model("EducationEntry",
             [institution |-> OptionalStr(value.v.institution, ver),
              details |-> Bullets(value.v.details, ver)])

ProjectEntry(value, ver) ==
  IF value.k # "dict" THEN ValidationError
  ELSE Model("ProjectEntry",
             [name |-> OptionalStr(value.v.name, ver),
              bullets |-> Bullets(value.v.bullets, ver)])

CertificationEntry(value, ver) ==
  IF value.k # "dict" THEN ValidationError
  ELSE Model("CertificationEntry",
             [name |-> OptionalStr(value.v.name, ver),
              evidence |-> OptionalEvidence(value.v.evidence, ver)])

\* contact: ContactInfo = Field(default_factory=ContactInfo)
ContactInfo(value, ver) ==
  IF value.k = "missing" THEN Obj("ContactInfo", [name |-> NoneValue])
  ELSE IF value.k # "dict" THEN ValidationError
  ELSE Model("ContactInfo", [name |-> OptionalStr(value.v.name, ver)])

\* Mutant: only leading whitespace is removed.
normalize_skill_LStripOnly(v) ==
  IF v = NoneValue THEN NoneValue ELSE Str(LStrip(v.v))

\* Resume.normalize_skill
normalize_skill(v) ==
  IF v = NoneValue THEN NoneValue ELSE Str(Strip(v.v))

\* skills: List[Optional[str]] with the each_item validator.
Skills(value, ver) ==
  ListOf(value,
         [i \in 1..Len(Items(value)) |->
            LET item == OptionalStr(Items(value)[i], ver)
            IN IF item = ValidationError THEN item ELSE normalize_skill(item)])

\* Resume.parse_obj(data)
ResumeParseObj(value, ver) ==
  IF value.k # "dict" THEN ValidationError
  ELSE Model("Resume",
         [contact |-> ContactInfo(value.v.contact, ver),
          summary |-> OptionalStr(value.v.summary, ver),
          work_experience |->
            ListOf(value.v.work_experience,
                   [i \in 1..Len(Items(value.v.work_experience)) |->
                      ExperienceEntry(Items(value.v.work_experience)[i], ver)]),
          education |->
            ListOf(value.v.education,
                   [i \in 1..Len(Items(value.v.education)) |->
                      EducationEntry(Items(value.v.education)[i], ver)]),
          skills |-> Skills(value.v.skills, ver),
          projects |-> ListOf(value.v.projects,
                   [i \in 1..Len(Items(value.v.projects)) |->
                      ProjectEntry(Items(value.v.projects)[i], ver)]),
          certifications |->
            ListOf(value.v.certifications,
                   [i \in 1..Len(Items(value.v.certifications)) |->
                      CertificationEntry(Items(value.v.certifications)[i], ver)]),
          raw_text |-> OptionalStr(value.v.raw_text, ver)])

\* keyword_alignment, default KeywordAlignment(found=[], missing=[])
KeywordAlignment(value, ver) ==
  IF value.k = "missing"
  THEN Obj("KeywordAlignment", [found |-> List(<<>>), missing |-> List(<<>>)])
  ELSE IF value.k # "dict" THEN ValidationError
  ELSE Model("KeywordAlignment",
             [found |-> ListOf(value.v.found,
                   [i \in 1..Len(Items(value.v.found)) |->
                      RequiredStr(Items(value.v.found)[i], ver)]),
              missing |-> ListOf(value.v.missing,
                   [i \in 1..Len(Items(value.v.missing)) |->
                      RequiredStr(Items(value.v.missing)[i], ver)])])

\* questions and missing_items: List[str] behind the coerce_lists
\* pre-validator.
CoercedList(value, ver) ==
  IF value.k = "missing" THEN List(<<>>)
  ELSE LET coerced == coerce_list(value)
       IN ListOf(coerced, [i \in 1..Len(coerced.v) |-> RequiredStr(coerced.v[i], ver)])

\* TailoredResume.parse_obj(data)
TailoredResumeParseObj(value, ver) ==
  IF value.k # "dict" THEN ValidationError
  ELSE Model("TailoredResume",
         [tailored_resume |-> ResumeParseObj(value.v.tailored_resume, ver),
          keyword_alignment |-> KeywordAlignment(value.v.keyword_alignment, ver),
          questions |-> CoercedList(value.v.questions, ver),
          missing_items |-> CoercedList(value.v.missing_items, ver),
          latex_content |-> OptionalStr(value.v.latex_content, ver)])

\* json.loads(model.json()): every model object becomes the dict of its
\* fields, None fields included.
RECURSIVE ToDict(_)
ToDict(value) ==
  IF value.k \in {"None", "str", "int", "missing"} THEN value
  ELSE IF value.k = "list"
  THEN List([i \in 1..Len(value.v) |-> ToDict(value.v[i])])
  ELSE Dict([f \in DOMAIN value.v |-> ToDict(value.v[f])])

\* The model outputs the schema layer is run on.
StrValues == {Str(str) : str \in Strs}

Scalars == {NoneValue, Int5} \cup StrValues

\* The items of the longer lists: None, a number, and a str of each kind
\* strip() tells apart.
ShortScalars ==
  {NoneValue, Int5, Str(<<>>), Str(<<" ">>), Str(<<"a">>), Str(<<" ", "a">>),
   Str(<<"a", " ">>), Str(<<"\n", "a", "a">>)}

\* What a model may supply where a list of strings is expected.
StrListValues ==
  {Missing} \cup Scalars \cup {List(l) : l \in ListsOf(ShortScalars, Scalars)}

BulletDicts ==
  { Dict([text |-> t, evidence |-> e]) :
      t \in {NoneValue, Str(<<"a">>), Str(<<" ", "a">>)},
      e \in {Missing, Dict([text |-> Str(<<"a">>)])} }

\* What a model may supply where a list of bullets is expected.
BulletsValues ==
  {Missing, Dict([text |-> Str(<<"a">>), evidence |-> Missing])}
    \cup Scalars
    \cup {List(l) : l \in ListsOf(ShortScalars \cup BulletDicts, Scalars)}

\* What a model may supply where a list of entries is expected.
EntriesValues(entry) ==
  {Missing, NoneValue, Int5, Str(<<"a">>), entry,
   List(<<>>), List(<<entry>>), List(<<entry, entry>>), List(<<NoneValue>>),
   List(<<Str(<<"a">>)>>)}

\* {} as a Resume payload: every key missing.
EmptyResumeData ==
  Dict([contact |-> Missing, summary |-> Missing, work_experience |-> Missing,
        education |-> Missing, skills |-> Missing, projects |-> Missing,
        certifications |-> Missing, raw_text |-> Missing])

ExperienceData(bullets) == Dict([company |-> Str(<<"a">>), bullets |-> bullets])
EducationData(details) == Dict([institution |-> NoneValue, details |-> details])
ProjectData(bullets) == Dict([name |-> Missing, bullets |-> bullets])
CertificationData ==
  Dict([name |-> Str(<<"a">>), evidence |-> Dict([text |-> Str(<<"a">>)])])

\* The extraction outputs: {} with one key supplied in every shape, and
\* values that are not mappings.
ResumeDatas ==
  {[EmptyResumeData EXCEPT !.v.skills = x] : x \in StrListValues}
    \cup {[EmptyResumeData EXCEPT !.v.work_experience = List(<<ExperienceData(b)>>)] :
            b \in BulletsValues}
    \cup {[EmptyResumeData EXCEPT !.v.education = List(<<EducationData(b)>>)] :
            b \in BulletsValues}
    \cup {[EmptyResumeData EXCEPT !.v.projects = List(<<ProjectData(b)>>)] :
            b \in BulletsValues}
    \cup {[EmptyResumeData EXCEPT !.v.work_experience = x] :
            x \in EntriesValues(ExperienceData(List(<<Str(<<"a">>)>>)))}
    \cup {[EmptyResumeData EXCEPT !.v.education = x] :
            x \in EntriesValues(EducationData(Str(<<"a">>)))}
    \cup {[EmptyResumeData EXCEPT !.v.projects = x] :
            x \in EntriesValues(ProjectData(NoneValue))}
    \cup {[EmptyResumeData EXCEPT !.v.certifications = x] :
            x \in EntriesValues(CertificationData)}
    \cup {[EmptyResumeData EXCEPT !.v.raw_text = x, !.v.summary = y,
                                  !.v.contact = c, !.v.skills = k] :
            x \in {Missing, NoneValue, Int5, Str(<<"a">>), Str(<<"a", "a">>),
                   List(<<>>)},
            y \in {Missing, Str(<<"a">>)},
            c \in {Missing, NoneValue, Dict([name |-> Str(<<"a">>)])},
            k \in {Missing, List(<<Str(<<" ", "a">>), NoneValue>>)}}
    \cup {NoneValue, List(<<>>), Str(<<"a">>)}

\* The raw_text arguments of extract_resume_json.
RawTexts == {<<"a">>, <<"a", "\n", "a">>}

\* Mutant: the raw_text of the model output is kept.
AttachRawText_KeepModel(r, text) == r

\* resume.raw_text = raw_text
AttachRawText(r, text) == [r EXCEPT !.v.raw_text = Str(text)]

\* extract_resume_json after chat_json returned data: Resume.parse_obj(data),
\* then the raw_text argument is attached.
ExtractResume ==
  /\ pc = "idle"
  /\ \E d \in ResumeDatas, text \in RawTexts, ver \in PydanticVersions :
       LET parsed == ResumeParseObj(d, ver)
       IN /\ api' = "extract_resume_json"
          /\ data' = d /\ raw_text' = text /\ pydantic' = ver
          /\ IF parsed = ValidationError
             THEN /\ resume' = NoObject
                  /\ outcome' = "ValidationError"
                  /\ pc' = "done"
             ELSE /\ resume' = AttachRawText(parsed, text)
                  /\ outcome' = "ok"
                  /\ pc' = "parsed"
  /\ UNCHANGED <<chatVars, envVars, appIn, pipe, ident, client, reparsed, tailored>>

\* tailor_resume's payload = json.loads(resume.json()), parsed back as a
\* Resume.
ReparseResume ==
  /\ pc = "parsed"
  /\ LET payload == ToDict(resume)
     IN /\ data' = payload
        /\ reparsed' = ResumeParseObj(payload, pydantic)
  /\ pc' = "done"
  /\ UNCHANGED <<chatVars, envVars, api, outcome, appIn, pipe, ident, client, raw_text,
                 resume, tailored, pydantic>>

\* The payload of a TailoredResume around a Resume payload.
TailoredData(tailored_resume, keyword_alignment, questions, missing_items) ==
  Dict([tailored_resume |-> tailored_resume,
        keyword_alignment |-> keyword_alignment,
        questions |-> questions, missing_items |-> missing_items,
        latex_content |-> Missing])

\* json.loads(resume.json()) parsed back as the tailored_resume of a
\* TailoredResume.
ParseNestedResume ==
  /\ pc = "parsed"
  /\ LET payload ==
           TailoredData(ToDict(resume),
                        Dict([found |-> List(<<Str(<<"a">>)>>), missing |-> List(<<>>)]),
                        List(<<>>), List(<<>>))
     IN /\ data' = payload
        /\ tailored' = TailoredResumeParseObj(payload, pydantic)
  /\ pc' = "done"
  /\ UNCHANGED <<chatVars, envVars, api, outcome, appIn, pipe, ident, client, raw_text,
                 resume, reparsed, pydantic>>

\* Keyword lists a tailoring response can carry in keyword_alignment.
KeywordLists ==
  {List(<<>>), List(<<Str(<<"a">>)>>), List(<<Str(<<"b">>)>>),
   List(<<Str(<<"a">>), Str(<<"b">>)>>)}

\* The tailoring outputs: one of the four keys supplied in every shape around
\* a valid rest.
TailoredDatas ==
  {TailoredData(EmptyResumeData, Missing, x, Missing) : x \in StrListValues}
    \cup {TailoredData(EmptyResumeData, Missing, Missing, x) : x \in StrListValues}
    \cup {TailoredData(EmptyResumeData, Dict([found |-> x, missing |-> Missing]),
                       Missing, Missing) : x \in StrListValues}
    \cup {TailoredData(EmptyResumeData, Dict([found |-> Missing, missing |-> x]),
                       Missing, Missing) : x \in StrListValues}
    \cup {TailoredData(EmptyResumeData, Dict([found |-> x, missing |-> y]),
                       Missing, Missing) : x, y \in KeywordLists}
    \cup {TailoredData(r, k, Missing, Missing) :
            r \in {Missing, NoneValue, Str(<<"a">>), EmptyResumeData},
            k \in {Missing, NoneValue, Str(<<"a">>)}}
    \cup {NoneValue, List(<<>>)}

\* tailor_resume after chat_json returned data: TailoredResume.parse_obj(data).
ParseTailoredResume ==
  /\ pc = "idle"
  /\ \E d \in TailoredDatas, ver \in PydanticVersions :
       LET parsed == TailoredResumeParseObj(d, ver)
       IN /\ api' = "tailor_resume"
          /\ data' = d /\ pydantic' = ver
          /\ IF parsed = ValidationError
             THEN tailored' = NoObject /\ outcome' = "ValidationError"
             ELSE tailored' = parsed /\ outcome' = "ok"
          /\ pc' = "done"
  /\ UNCHANGED <<chatVars, envVars, appIn, pipe, ident, client, raw_text, resume,
                 reparsed>>

\* ------------------------------------------------------------- PDF parser
MaxWords == 7

\* What an extractor may return: None, or a text just below or at the length
\* threshold with up to MaxWords alphabetic words.
ExtractorOutputs ==
  {NoText} \cup
  {t \in [words : 0..MaxWords, unique : 0..MaxWords,
          len : {MinTextLen - 1, MinTextLen}] :
     t.unique <= t.words /\ (t.unique = 0 <=> t.words = 0)}

\* _is_low_quality(text): unique_ratio < 0.15 or len(text) < 100
is_low_quality(text) ==
  LET words == IF text.words > 1 THEN text.words ELSE 1
  IN \/ text.unique * 100 < LowQualityPercent * words
     \/ text.len < MinTextLen

\* parse_resume_pdf(path), given what the two extractors return for the file.
parse_resume_pdf(plumber, pymupdf) ==
  LET fallback == plumber = NoText \/ is_low_quality(plumber)
      replaced == fallback /\ pymupdf # NoText
      text == IF replaced THEN pymupdf ELSE plumber
      method_used == IF replaced THEN "pymupdf" ELSE "pdfplumber"
  IN IF text = NoText
     THEN [NoParse EXCEPT !.fallback = fallback]
     ELSE [ok |-> TRUE, raw_text |-> text, method |-> method_used,
           fallback |-> fallback]

ParsePdf ==
  /\ pc = "idle"
  /\ \E plumber \in ExtractorOutputs, pymupdf \in ExtractorOutputs :
       LET parsed == parse_resume_pdf(plumber, pymupdf)
       IN /\ pdf' = [plumber |-> plumber, pymupdf |-> pymupdf, result |-> parsed]
          /\ outcome' = IF parsed.ok THEN "ok" ELSE "ValueError"
  /\ api' = "parse_resume_pdf"
  /\ pc' = "done"
  /\ UNCHANGED <<chatVars, appIn, pipe, dataVars, sdk, inv>>

\* ------------------------------------------------- concurrent invocations
\* Two run_pipeline invocations in threads of one process. Each constructs an
\* OpenAIClient in extract_resume_json and another in tailor_resume, and sends
\* its requests through it. With the SDK of generation 1 (openai.OpenAI
\* exists) the client object holds the key; with the legacy SDK __init__
\* stores the key in the module attribute openai.api_key, which
\* ChatCompletion.create reads when the request is made.
Credentials == {"sk-1", "sk-2"}

SdkModes == {"client", "legacy"}

\* Everything but the SDK module and the invocations.
singleVars == <<api, pc, outcome, chatVars, appIn, pipe, dataVars, pdf>>

\* run_pipeline(api_key, ...) is called in thread i.
StartInvocation(i) ==
  /\ inv[i].pc = "idle"
  /\ \E key \in Credentials :
       inv' = [inv EXCEPT ![i] = [pc |-> "extract_init", api_key |-> key,
                                  client_key |-> "none", sent |-> {}]]
  /\ UNCHANGED <<sdk, singleVars>>

\* hasattr(openai, "OpenAI"): the same answer at every construction.
ModesInstalled == IF sdk.mode = "unknown" THEN SdkModes ELSE {sdk.mode}

\* OpenAIClient.__init__(api_key, model) in thread i.
ConstructClient(i) ==
  /\ inv[i].pc \in {"extract_init", "tailor_init"}
  /\ \E mode \in ModesInstalled :
       LET chatting == IF inv[i].pc = "extract_init" THEN "extract_chat"
                       ELSE "tailor_chat"
       IN IF mode = "client"
          THEN /\ sdk' = [sdk EXCEPT !.mode = mode]
               /\ inv' = [inv EXCEPT ![i].pc = chatting,
                                     ![i].client_key = inv[i].api_key]
          ELSE /\ sdk' = [mode |-> mode, api_key |-> inv[i].api_key]
               /\ inv' = [inv EXCEPT ![i].pc = chatting,
                                     ![i].client_key = "module"]
  /\ UNCHANGED singleVars

\* The credential a request of thread i's client goes out with.
RequestCredential(i) ==
  IF inv[i].client_key = "module" THEN sdk.api_key ELSE inv[i].client_key

\* One provider request of chat in thread i; the call goes on to another
\* attempt or returns.
SendRequest(i) ==
  /\ inv[i].pc \in {"extract_chat", "tailor_chat"}
  /\ \E after \in {inv[i].pc,
                   IF inv[i].pc = "extract_chat" THEN "tailor_init" ELSE "done"} :
       inv' = [inv EXCEPT ![i].pc = after,
                          ![i].sent = @ \cup {RequestCredential(i)}]
  /\ UNCHANGED <<sdk, singleVars>>

\* ------------------------------------------------------------ specifications
RetryArgs == {NotGiven} \cup 0..MaxRetries

\* Every entry point, every max_retries up to MaxRetries, the responses of
\* Responses.
Next ==
  \/ CallChat(RetryArgs)
  \/ CallChatJson(RetryArgs)
  \/ RequestFails
  \/ RequestSucceeds(Responses, Responses)
  \/ ChatExhausted
  \/ GenerateTailoredResume
  \/ RunPipeline
  \/ ExtractReturns
  \/ TailorReturns

Spec == Init /\ [][Next]_vars

\* chat_json with max_retries 0 or 1 against every response text of at most
\* MaxTextLen lexemes, as the first response or as the repair response.
NextJson ==
  \/ CallChatJson({0, 1})
  \/ RequestFails
  \/ RequestSucceeds(Texts, Responses)
  \/ ChatExhausted

SpecJson == Init /\ [][NextJson]_vars

\* build_client and the schema layer on their own, over every identifier of at
\* most MaxIdLen pieces.
NextData ==
  \/ BuildClient
  \/ ExtractResume
  \/ ReparseResume
  \/ ParseNestedResume
  \/ ParseTailoredResume
  \/ ParsePdf

SpecData == Init /\ [][NextData]_vars

\* Two pipeline invocations interleaved step by step.
NextSdk ==
  \E i \in Invocations :
    \/ StartInvocation(i)
    \/ ConstructClient(i)
    \/ SendRequest(i)

SpecSdk == Init /\ [][NextSdk]_vars

\* ------------------------------------------------------------------- claims
\* The text a successful provider response carries (None content reads as "").
TextOf(content) == IF content = NoneContent THEN <<>> ELSE content

\* A chat call is over and returned (the last request of the call succeeded).
ChatReturned == requests = sleeps + 1

\* C1: one call of chat issues at most max_retries provider requests (3 when
\* max_retries is not given), has at most one successful request, which is its
\* last one, and returns the text of that response.
C1_RetryBound ==
  /\ requests <= max_retries
  /\ arg # NotGiven => requests <= arg
  /\ arg = NotGiven => requests <= 3
  /\ requests - sleeps \in {0, 1}
  /\ (api = "chat" /\ ChatReturned)
       => /\ pc = "done" /\ outcome = "ok"
          /\ result = [tag |-> "str", repr |-> TextOf(lastContent)]
  /\ (api = "chat" /\ outcome = "ok") => ChatReturned

C1_Witness ==
  /\ api = "chat" /\ outcome = "ok" /\ arg = NotGiven
  /\ requests = 3 /\ sleeps = 2 /\ result.repr = <<"x">>

\* C2: when every one of the max_retries >= 1 requests of a chat call fails,
\* the call ends in the RuntimeError that quotes the error of the last attempt
\* (index max_retries - 1) and returns no value.
C2_LastErrorCarried ==
  /\ (max_retries >= 1 /\ sleeps >= max_retries)
       => /\ outcome \in {"none", "RuntimeError"}
          /\ result = NoResult
  /\ (max_retries >= 1 /\ outcome = "RuntimeError")
       => /\ sleeps = max_retries /\ requests = max_retries
          /\ errCarried.at = max_retries - 1
          /\ errCarried # NoneError
          /\ pc = "done"

C2_Witness ==
  /\ outcome = "RuntimeError" /\ max_retries = 3 /\ sleeps = 3
  /\ errCarried.at = 2 /\ errCarried.status = 500 /\ rlFails = 2

\* C3: at every attempt index the wait after a rate-limit failure is the fixed
\* cooldown of the back-end, and the cooldown is greater than the backoff delay
\* of that attempt index.
C3_CooldownExceedsBackoff ==
  [][(sleeps' = sleeps + 1 /\ is_rate_limit_error(last_error'))
       => /\ waited' - waited = Cooldown(backend)
          /\ Cooldown(backend) > delay]_vars

\* C4: a chat call with k rate-limit failures followed by a success, k below
\* max_retries, succeeds having waited exactly k cooldown periods.
C4_WaitIsKCooldowns ==
  (ChatReturned /\ rlFails = sleeps)
    => /\ outcome # "RuntimeError"
       /\ sleeps < max_retries
       /\ waited = sleeps * (IF backend = "openai" THEN OpenAICooldown ELSE HFCooldown)

C4_Witness ==
  /\ api = "chat" /\ outcome = "ok" /\ max_retries = 4
  /\ rlFails = 3 /\ sleeps = 3 /\ requests = 4
  /\ waited = 3 * OpenAICooldown

\* The text is well-formed JSON: json.loads accepts it.
WellFormed(text) == json_loads(text) # JSONDecodeError

\* chat_json is in, or ended in, its repair chat.
InRepair == api \in {"chat_json", "pipeline"} /\ phase = "repair"

\* chat_json returned from its first chat call.
ReturnedAtFirst ==
  api \in {"chat_json", "pipeline"} /\ phase = "first" /\ outcome = "ok"

\* C5 as stated: for every well-formed JSON response (null included)
\* chat_json returns the parsed value unchanged after exactly one chat call
\* and sends no repair prompt.
C5_WellFormedNoRepair ==
  /\ (InRepair /\ pc = "request") => ~WellFormed(raw)
  /\ (ReturnedAtFirst /\ WellFormed(TextOf(lastContent)))
       => result = json_loads(TextOf(lastContent)) /\ chatCalls = 1

\* C5 amended: for every well-formed JSON response whose value is not null
\* chat_json returns the parsed value unchanged after exactly one chat call
\* and sends no repair prompt; a response whose value is null is repaired.
C5_WellFormedNonNullNoRepair ==
  /\ (InRepair /\ pc = "request")
       => (~WellFormed(raw) \/ json_loads(raw) = PyNone)
  /\ (ReturnedAtFirst /\ WellFormed(TextOf(lastContent)))
       => /\ result = json_loads(TextOf(lastContent))
          /\ result # PyNone
          /\ chatCalls = 1

C5_Witness ==
  /\ ReturnedAtFirst /\ chatCalls = 1
  /\ lastContent = <<"[", "{", "}", "]">>
  /\ result = [tag |-> "list", repr |-> <<"[", "{", "}", "]">>]

\* The text is not JSON itself and is prose (lexemes other than braces)
\* around one balanced {...} block that holds a JSON object.
OneBlockInProse(text) ==
  /\ ~WellFormed(text)
  /\ \E i, j \in 1..Len(text) :
       /\ i < j /\ text[i] = "{" /\ text[j] = "}"
       /\ json_loads(SubSeq(text, i, j)).tag = "dict"
       /\ \A k \in (1..(i - 1)) \cup ((j + 1)..Len(text)) : text[k] \notin {"{", "}"}

\* C6: for a response that is prose around exactly one balanced {...} block
\* holding a JSON object, chat_json returns the parse of the text from its
\* first "{" to its last "}" and sends no repair prompt.
C6_BlockInProse ==
  /\ (InRepair /\ pc = "request") => ~OneBlockInProse(raw)
  /\ (ReturnedAtFirst /\ OneBlockInProse(TextOf(lastContent)))
       => LET text == TextOf(lastContent)
          IN /\ result = json_loads(SubSeq(text, Find(text, "{"), RFind(text, "}")))
             /\ result.tag = "dict"
             /\ chatCalls = 1

C6_Witness ==
  /\ ReturnedAtFirst /\ chatCalls = 1
  /\ lastContent = <<"x", "{", "}", "x">>
  /\ result = [tag |-> "dict", repr |-> <<"{", "}">>]

\* Neither the direct parse nor the parse of the first-"{"-to-last-"}"
\* substring accepts the text.
Unparseable(text) ==
  /\ ~WellFormed(text)
  /\ \/ Find(text, "{") = 0
     \/ RFind(text, "}") <= Find(text, "{")
     \/ ~WellFormed(SubSeq(text, Find(text, "{"), RFind(text, "}")))

\* C7: one chat_json call makes at most two chat calls (the repair prompt is
\* sent at most once); when the repair response is unparseable too the call
\* fails with ValueError and returns nothing, and a call that returns returns
\* the parse of the last response, never a default.
C7_RepairAtMostOnce ==
  /\ chatCalls <= 2
  /\ InRepair => chatCalls = 2
  /\ (InRepair /\ ChatReturned /\ Unparseable(TextOf(lastContent)))
       => outcome = "ValueError" /\ result = NoResult /\ pc = "done"
  /\ outcome = "ValueError" => result = NoResult
  /\ (api \in {"chat_json", "pipeline"} /\ outcome = "ok")
       => result \notin {NoResult, PyNone}

C7_Witness ==
  /\ api = "chat_json" /\ outcome = "ValueError" /\ chatCalls = 2
  /\ lastContent = <<"x">> /\ ChatReturned

\* C8 as stated: when the repair response is valid JSON (the first response
\* being non-JSON prose), chat_json succeeds and returns its parse after
\* exactly one repair call whose prompt holds the original response.
C8_RepairValidJsonSucceeds ==
  [][(InRepair /\ pc = "request" /\ Unparseable(raw) /\ Contains(raw, <<"x">>)
        /\ requests' = requests + 1
        /\ sleeps' = sleeps /\ WellFormed(TextOf(lastContent')))
       => /\ outcome' = "ok"
          /\ result' = json_loads(TextOf(lastContent'))
          /\ chatCalls' = 2]_vars

\* C8 amended: when the repair response is valid JSON other than null,
\* chat_json succeeds and returns its parse after exactly one repair call;
\* the repair prompt ends with the original invalid response text.
C8_RepairNonNullJsonSucceeds ==
  /\ (InRepair /\ ChatReturned /\ WellFormed(TextOf(lastContent))
        /\ json_loads(TextOf(lastContent)) # PyNone)
       => /\ outcome = "ok"
          /\ result = json_loads(TextOf(lastContent))
          /\ chatCalls = 2
  /\ (InRepair /\ pc = "request")
       => /\ Len(prompt) > Len(raw)
          /\ SubSeq(prompt, Len(prompt) - Len(raw) + 1, Len(prompt)) = raw
          /\ prompt[1] # UserPrompt[1]

C8_Witness ==
  /\ api = "chat_json" /\ InRepair /\ outcome = "ok" /\ chatCalls = 2
  /\ lastContent = <<"{", "}">> /\ result.tag = "dict"

\* C9: whenever chat_json returns, the value is a JSON object (a mapping),
\* never a list, a scalar or null.
C9_ReturnsMapping ==
  (api \in {"chat_json", "pipeline"} /\ outcome = "ok") => result.tag = "dict"

\* The back-end each provider choice stands for.
BackendOf(p) == IF p = "OpenAI" THEN "openai" ELSE "huggingface"

\* C10: run_pipeline accepts the provider identifier its caller passes, and
\* the requests of the run go to the back-end that identifier selects.
C10_ProviderSelectsBackend ==
  /\ api = "app" => outcome # "TypeError"
  /\ (provider # "none" /\ requests > 0) => backend = BackendOf(provider)

\* The errors with which a chat_json call or a validation ends.
PipelineErrors == {"RuntimeError", "ValueError", "ValidationError"}

\* C12: in run_pipeline the tailoring chat_json call is made only after the
\* extraction stage is over and gave a validated Resume; while extraction is
\* in progress, and when it failed, no tailoring call has been made and
\* nothing is returned.
C12_TailorAfterExtract ==
  /\ stage = "tailor" => (pipe.resume /\ pipe.extract = 1 /\ pipe.tailor = 1)
  /\ prompt = TailoringPrompt => stage = "tailor"
  /\ (api = "pipeline" /\ stage = "extract")
       => /\ pipe.tailor = 0 /\ ~pipe.resume
          /\ pc = "done" => (outcome \in PipelineErrors /\ result = NoResult)
  /\ (api = "pipeline" /\ pc = "done" /\ outcome = "ok") => stage = "tailor"

C12_Witness ==
  /\ api = "pipeline" /\ stage = "tailor" /\ pc = "request" /\ requests = 1
  /\ pipe.resume /\ prompt = TailoringPrompt

C12_WitnessFailed ==
  /\ api = "pipeline" /\ stage = "extract" /\ pc = "done"
  /\ outcome = "ValueError" /\ pipe.tailor = 0

\* C14: run_pipeline makes one chat_json call for extraction and at most one
\* for tailoring; a failure of either call or of the validation ends the run
\* with that error and no result.
C14_NoOrchestratorRetry ==
  /\ pipe.extract <= 1 /\ pipe.tailor <= 1
  /\ api = "pipeline" => pipe.extract = 1
  /\ (api = "pipeline" /\ outcome \in PipelineErrors)
       => /\ pc = "done" /\ result = NoResult
          /\ outcome = "RuntimeError" => errCarried = last_error
  /\ (api = "pipeline" /\ pc = "done")
       => /\ outcome \in PipelineErrors \cup {"ok"}
          /\ outcome = "ok" => (pipe.resume /\ result.tag = "dict")
          /\ (sleeps = max_retries \/ ~ChatReturned) => outcome = "RuntimeError"

C14_Witness ==
  /\ api = "pipeline" /\ stage = "tailor" /\ pc = "done"
  /\ outcome = "RuntimeError" /\ pipe.extract = 1 /\ pipe.tailor = 1
  /\ errCarried.at = 2

\* The preconditions of the LLM pipeline in generate_tailored_resume.
AppPreconditions ==
  /\ appIn.api_key # ""
  /\ appIn.pdf_file # "none"
  /\ \E i \in 1..Len(appIn.job_description) :
       appIn.job_description[i] \notin {" ", "\n"}
  /\ (appIn.plumber # "None" \/ appIn.pymupdf # "None")
  /\ appIn.template_choice \in TemplateMap

\* C20: generate_tailored_resume makes no provider request, and does not even
\* call run_pipeline, unless the credential is non-empty, a PDF is supplied,
\* the job description is non-blank, text was extracted and the template is
\* known; a missing credential, a failed extraction and an unknown template
\* end the call with their error.
C20_PreconditionsFirst ==
  api = "app"
    => /\ requests = 0 /\ chatCalls = 0 /\ pipe = NoPipe
       /\ pc = "done" /\ result = NoResult
       /\ outcome = "TypeError" <=> AppPreconditions
       /\ appIn.api_key = "" => outcome = "API key/token required."
       /\ (appIn.api_key # "" /\ appIn.pdf_file # "none"
             /\ Strip(appIn.job_description) # <<>>)
            => /\ (appIn.plumber = "None" /\ appIn.pymupdf = "None")
                    => outcome = "ValueError"
               /\ (outcome # "ValueError" /\ appIn.template_choice \notin TemplateMap)
                    => outcome = "KeyError"

C20_Witness ==
  /\ api = "app" /\ outcome = "KeyError" /\ appIn.template_choice = "missing"
  /\ appIn.api_key = "sk" /\ appIn.plumber = "low" /\ appIn.pymupdf = "None"
  /\ requests = 0

\* The identifier with its letters lowered and all of its spaces removed.
Squeezed(id) == SelectSeq(Lower(id), LAMBDA c : c # " ")

\* C11: build_client selects the back-end from the identifier whatever its
\* letter case and whatever spaces it has (leading, trailing or inside), and
\* every other identifier ends with 'Unknown provider' and no client.
C11_SpaceCaseInsensitive ==
  api = "build_client"
    => /\ Squeezed(ident) = <<"open", "ai">> => client = "OpenAIClient"
       /\ (Squeezed(ident) \in {<<"hugging", "face">>,
                                <<"hugging", "face", "(inference api)">>}
             /\ appIn.api_key # "")
            => client = "HuggingFaceClient"
       /\ Squeezed(ident) \notin {<<"open", "ai">>, <<"hugging", "face">>,
                                  <<"hugging", "face", "(inference api)">>}
            => (client = "none" /\ outcome = "Unknown provider" /\ requests = 0)

\* extract_resume_json has just returned a Resume built from data.
Extracted == api = "extract_resume_json" /\ pc = "parsed"

\* C13: the Resume extract_resume_json returns has the raw_text its caller
\* passed, whatever the model output held under raw_text, and so has the JSON
\* payload tailor_resume makes of it.
C13_RawTextFromCaller ==
  (api = "extract_resume_json" /\ outcome = "ok")
    => /\ resume.v.raw_text = Str(raw_text)
       /\ ToDict(resume).v.raw_text = Str(raw_text)
       /\ reparsed # NoObject => data.v.raw_text = Str(raw_text)
       /\ tailored # NoObject
            => data.v.tailored_resume.v.raw_text = Str(raw_text)

C13_Witness ==
  /\ Extracted /\ raw_text = <<"a">>
  /\ data.v.raw_text = Str(<<"a", "a">>)
  /\ resume.v.raw_text = Str(<<"a">>)

C13_WitnessNull ==
  /\ Extracted /\ data.v.raw_text = NoneValue
  /\ resume.v.raw_text = Str(<<"a", "\n", "a">>)

\* The list-shaped fields of Resume that have no pre-validator.
ResumeListFields ==
  {"work_experience", "education", "skills", "projects", "certifications"}

\* None, a bare str or a scalar.
NotAList(value) == value.k \in {"None", "str", "int"}

\* extract_resume_json is over, with a Resume or with the ValidationError of
\* Resume.parse_obj, and data is still the model output.
ExtractOver ==
  /\ api = "extract_resume_json"
  /\ pc = "parsed" \/ outcome = "ValidationError"
  /\ data.k = "dict"

TailorOver == api = "tailor_resume" /\ pc = "done" /\ data.k = "dict"

\* C15: a list-shaped field supplied as null, as a bare string or as a scalar
\* (everything else of the output being absent) is coerced: the object is
\* built and the field is a list.
C15_ListFieldsCoerced ==
  /\ \A f \in ResumeListFields :
       (ExtractOver /\ NotAList(data.v[f]))
         => (outcome = "ok" /\ resume.v[f].k = "list")
  /\ (ExtractOver /\ outcome = "ok")
       => \A f \in ResumeListFields : resume.v[f].k = "list"
  /\ \A f \in {"questions", "missing_items"} :
       (TailorOver /\ data.v.tailored_resume.k = "dict" /\ NotAList(data.v[f]))
         => (outcome = "ok" /\ tailored.v[f].k = "list")
  /\ \A f \in {"found", "missing"} :
       (TailorOver /\ data.v.tailored_resume.k = "dict"
          /\ data.v.keyword_alignment.k = "dict"
          /\ NotAList(data.v.keyword_alignment.v[f]))
         => (outcome = "ok" /\ tailored.v.keyword_alignment.v[f].k = "list")

\* The part of C15 that the code does guarantee: bullets and details.
C15_BulletsCoerced ==
  /\ (ExtractOver /\ data.v.work_experience.k = "list"
        /\ Len(data.v.work_experience.v) = 1
        /\ data.v.work_experience.v[1].k = "dict"
        /\ NotAList(data.v.work_experience.v[1].v.bullets))
       => (outcome = "ok" /\ resume.v.work_experience.v[1].v.bullets.k = "list")
  /\ (ExtractOver /\ data.v.education.k = "list"
        /\ Len(data.v.education.v) = 1
        /\ data.v.education.v[1].k = "dict"
        /\ NotAList(data.v.education.v[1].v.details))
       => (outcome = "ok" /\ resume.v.education.v[1].v.details.k = "list")

Whitespace == {" ", "\n"}

\* t is s without its leading and trailing whitespace.
IsStripOf(t, s) ==
  /\ t # <<>> => (t[1] \notin Whitespace /\ t[Len(t)] \notin Whitespace)
  /\ \E i \in 1..(Len(s) + 1), j \in 0..Len(s) :
       /\ t = SubSeq(s, i, j)
       /\ \A h \in 1..Len(s) : (h < i \/ h > j) => s[h] \in Whitespace

\* The tailoring output supplied questions or missing_items as value, around
\* a valid rest.
Supplied(f, value) ==
  /\ TailorOver /\ data.v.tailored_resume.k = "dict"
  /\ data.v.keyword_alignment.k \in {"missing", "dict"}
  /\ data.v[f] = value

\* C16: questions and missing_items supplied as any non-empty string become a
\* one-element list, supplied as null the empty list, and supplied as a list
\* they are kept as given.
C16_StringBecomesOneElement ==
  \A f \in {"questions", "missing_items"} :
    /\ (TailorOver /\ data.v.tailored_resume.k = "dict"
          /\ data.v[f].k = "str" /\ data.v[f].v # <<>>)
         => (outcome = "ok" /\ Len(tailored.v[f].v) = 1)
    /\ Supplied(f, NoneValue) => (outcome = "ok" /\ tailored.v[f] = List(<<>>))
    /\ (TailorOver /\ data.v.tailored_resume.k = "dict" /\ data.v[f].k = "list")
         => (outcome = "ok" /\ tailored.v[f] = data.v[f])

\* C16 (amended): a string with text on one line only becomes the one-element
\* list of that line stripped; a blank string and null become the empty list;
\* a string with text on several lines becomes one stripped element per
\* non-blank line; a list of strings is kept as given.
C16_StringSplitIntoLines ==
  \A f \in {"questions", "missing_items"} :
    /\ (TailorOver /\ data.v.tailored_resume.k = "dict" /\ data.v[f].k = "str")
         => /\ outcome = "ok"
            /\ \A i \in 1..Len(tailored.v[f].v) :
                 LET item == tailored.v[f].v[i]
                 IN /\ item.k = "str" /\ item.v # <<>>
                    /\ \A h \in 1..Len(item.v) : item.v[h] # "\n"
                    /\ item.v[1] # " " /\ item.v[Len(item.v)] # " "
            /\ \E t \in Strs :
                 /\ IsStripOf(t, data.v[f].v)
                 /\ t = <<>> => tailored.v[f] = List(<<>>)
                 /\ (t # <<>> /\ \A h \in 1..Len(t) : t[h] # "\n")
                      => tailored.v[f] = List(<<Str(t)>>)
                 /\ Len(tailored.v[f].v) <= 1 + Len(SelectSeq(t, LAMBDA c : c = "\n"))
                 /\ SelectSeq(t, LAMBDA c : c \notin Whitespace)
                      = SelectSeq(data.v[f].v, LAMBDA c : c \notin Whitespace)
            /\ LET chars(sq) == SelectSeq(sq, LAMBDA c : c \notin Whitespace)
                   RECURSIVE Joined(_)
                   Joined(items) == IF items = <<>> THEN <<>>
                                    ELSE chars(Head(items).v) \o Joined(Tail(items))
               IN Joined(tailored.v[f].v) = chars(data.v[f].v)
    /\ Supplied(f, NoneValue) => (outcome = "ok" /\ tailored.v[f] = List(<<>>))
    /\ (TailorOver /\ data.v.tailored_resume.k = "dict" /\ data.v[f].k = "list"
          /\ \A i \in 1..Len(data.v[f].v) : data.v[f].v[i].k = "str")
         => (outcome = "ok" /\ tailored.v[f] = data.v[f])

C16_Witness ==
  /\ Supplied("questions", Str(<<"a", "\n", "a">>))
  /\ tailored.v.questions = List(<<Str(<<"a">>), Str(<<"a">>)>>)

C16_WitnessBlank ==
  /\ Supplied("missing_items", Str(<<" ", "\n">>))
  /\ tailored.v.missing_items = List(<<>>)

\* C17: Resume.parse_obj strips every skill string and keeps the order and
\* the number of the skills; parsing the normalized list again changes
\* nothing.
C17_SkillsStripped ==
  /\ (Extracted /\ data.v.skills.k = "list")
       => /\ Len(resume.v.skills.v) = Len(data.v.skills.v)
          /\ \A i \in 1..Len(data.v.skills.v) :
               LET given == data.v.skills.v[i]
                   kept == resume.v.skills.v[i]
               IN /\ given.k = "str"
                       => (kept.k = "str" /\ IsStripOf(kept.v, given.v))
                  /\ given.k = "None" => kept = NoneValue
  /\ (api = "extract_resume_json" /\ pc = "done" /\ reparsed # NoObject)
       => reparsed.v.skills = resume.v.skills
  /\ (api = "extract_resume_json" /\ pc = "done" /\ tailored # NoObject)
       => tailored.v.tailored_resume.v.skills = resume.v.skills

C17_Witness ==
  /\ Extracted
  /\ data.v.skills = List(<<Str(<<"a", " ">>), Str(<<" ", "a">>)>>)
  /\ resume.v.skills = List(<<Str(<<"a">>), Str(<<"a">>)>>)

C17_WitnessIdempotent ==
  /\ api = "extract_resume_json" /\ pc = "done" /\ outcome = "ok"
  /\ resume.v.skills = List(<<Str(<<"a", " ", "a">>)>>)
  /\ reparsed # NoObject /\ reparsed.v.skills = resume.v.skills

\* C18: a Resume serialized to JSON and parsed back, as a Resume or as the
\* tailored_resume of a TailoredResume payload, equals the original; the
\* contact and the found keywords come back as given.
C18_RoundTrip ==
  (api = "extract_resume_json" /\ pc = "done" /\ outcome = "ok")
    => /\ reparsed # NoObject
            => (reparsed = resume /\ reparsed.v.contact = resume.v.contact)
       /\ tailored # NoObject
            => /\ tailored.k = "TailoredResume"
               /\ tailored.v.tailored_resume = resume
               /\ tailored.v.keyword_alignment.v.found = List(<<Str(<<"a">>)>>)
               /\ tailored.v.keyword_alignment.v.missing = List(<<>>)

C18_Witness ==
  /\ api = "extract_resume_json" /\ pc = "done" /\ outcome = "ok"
  /\ reparsed = resume
  /\ Len(resume.v.work_experience.v) = 1
  /\ Len(resume.v.work_experience.v[1].v.bullets.v) = 2
  /\ resume.v.work_experience.v[1].v.bullets.v[1].v.evidence # NoneValue

C18_WitnessNested ==
  /\ api = "extract_resume_json" /\ pc = "done" /\ outcome = "ok"
  /\ tailored # NoObject /\ tailored.v.tailored_resume = resume
  /\ resume.v.contact.v.name = Str(<<"a">>)
  /\ resume.v.skills = List(<<Str(<<"a">>), NoneValue>>)

\* C21: a chat call whose max_retries >= 1 requests all fail has slept
\* max_retries - 1 times: no sleep follows the last failed request.
C21_NoWaitAfterLastFailure ==
  (api = "chat" /\ pc = "done" /\ outcome = "RuntimeError" /\ max_retries >= 1)
    => sleeps = max_retries - 1

\* A failed iteration of the loop of chat.
FailedAttempt == pc = "request" /\ requests' = requests + 1 /\ sleeps' = sleeps + 1

\* C22: the delay is 1 second at the first attempt and doubles after every
\* failed attempt, rate-limited or not: at attempt index i it is 2^i, and a
\* failure there that is not a rate-limit error sleeps 2^i seconds.
C22_BackoffDoubles ==
  [][ /\ pc' = "request" => delay' = 2 ^ attempt'
      /\ FailedAttempt
           => /\ attempt = sleeps /\ delay = 2 ^ attempt
              /\ ~is_rate_limit_error(last_error')
                   => waited' - waited = 2 ^ attempt
              /\ is_rate_limit_error(last_error')
                   => waited' - waited = Cooldown(backend) ]_vars

\* Two rate-limit failures, then a failure of another kind that sleeps 4s.
C22_Witness ==
  /\ api = "chat" /\ backend = "huggingface" /\ pc = "request"
  /\ sleeps = 3 /\ rlFails = 2 /\ ~is_rate_limit_error(last_error)
  /\ waited = 2 * HFCooldown + 4

\* C23: the repair call of chat_json gets the max_retries of the first call,
\* so one chat_json call issues at most 2 * max_retries provider requests; and
\* a first call that fails after its retries ends chat_json with that error,
\* without a repair call.
C23_RepairSameRetries ==
  api \in {"chat_json", "pipeline"}
    => /\ max_retries = MaxRetriesParam(arg)
       /\ jsonRequests <= 2 * MaxRetriesParam(arg)
       /\ phase = "first" => (jsonRequests = requests /\ chatCalls <= 1)
       /\ phase = "repair" => jsonRequests - requests \in 1..max_retries
       /\ (outcome = "RuntimeError" /\ phase = "first")
            => (chatCalls = 1 /\ jsonRequests = max_retries /\ result = NoResult)

\* Both calls of a chat_json with max_retries = 3 succeed at the last attempt.
C23_Witness ==
  /\ api = "chat_json" /\ arg = 3 /\ phase = "repair" /\ outcome = "ok"
  /\ jsonRequests = 6 /\ requests = 3

C23_WitnessExhausted ==
  /\ api = "chat_json" /\ phase = "first" /\ outcome = "RuntimeError"
  /\ max_retries = 2 /\ jsonRequests = 2

\* C24: whatever the interleaving of two invocations, every request of an
\* invocation goes out with the credential that invocation was given, the
\* legacy SDK included.
C24_OwnCredential ==
  \A i \in Invocations : inv[i].sent \subseteq {inv[i].api_key}

\* The part of C24 that the code does guarantee: clients of the generation-1
\* SDK keep their own key.
C24_ClientModeOwnCredential ==
  sdk.mode = "client" => \A i \in Invocations : inv[i].sent \subseteq {inv[i].api_key}

\* C25: low-quality text from pdfplumber counts as a failed extraction: the
\* fallback is tried and, when it yields nothing, parse_resume_pdf raises
\* rather than return that text; a returned text is non-empty and is the
\* output of the extractor the method label names.
C25_LowQualityIsFailure ==
  api = "parse_resume_pdf"
    => /\ is_low_quality(pdf.plumber) => pdf.result.fallback
       /\ (is_low_quality(pdf.plumber) /\ pdf.pymupdf = NoText) => ~pdf.result.ok
       /\ pdf.result.ok
            => /\ pdf.result.raw_text.len > 0
               /\ pdf.result.method = "pdfplumber"
                    => pdf.result.raw_text = pdf.plumber
               /\ pdf.result.method = "pymupdf"
                    => pdf.result.raw_text = pdf.pymupdf

\* The part of C25 that the code does guarantee.
C25_FallbackTriedAndLabelled ==
  api = "parse_resume_pdf"
    => /\ (pdf.plumber = NoText \/ is_low_quality(pdf.plumber)) <=> pdf.result.fallback
       /\ pdf.result.ok <=> (pdf.plumber # NoText \/ pdf.pymupdf # NoText)
       /\ pdf.result.ok
            => /\ pdf.result.raw_text.len > 0
               /\ pdf.result.method \in {"pdfplumber", "pymupdf"}
               /\ pdf.result.method = "pdfplumber"
                    => pdf.result.raw_text = pdf.plumber
               /\ pdf.result.method = "pymupdf"
                    => (pdf.result.raw_text = pdf.pymupdf /\ pdf.result.fallback)


\* C26: in every TailoredResume that tailor_resume returns, no keyword is in
\* both keyword_alignment.found and keyword_alignment.missing, whatever the
\* tailoring response contained.
C26_FoundMissingDisjoint ==
  (api = "tailor_resume" /\ outcome = "ok") =>
    LET alignment == tailored.v.keyword_alignment.v
        Keywords(list) == {list.v[i] : i \in DOMAIN list.v}
    IN Keywords(alignment.found) \cap Keywords(alignment.missing) = {}

====
